---- MODULE Spec2Model ----
(***************************************************************************)
(* Model of x/genutil/utils.go: node identity provisioning                 *)
(* (InitializeNodeValidatorFiles, InitializeNodeValidatorFilesFromMnemonic)*)
(* and genesis export (ExportGenesisFile, ExportGenesisFileWithTime).      *)
(*                                                                         *)
(* The filesystem is the state.  A file is a sequence: <<>> when the file  *)
(* does not exist, <<content>> when it does.  The tendermint / bip39 /     *)
(* codec primitives the two functions call are modelled by their           *)
(* contracts; the functions of utils.go are modelled statement by          *)
(* statement on top of them.                                               *)
(***************************************************************************)
EXTENDS Naturals, Integers, Sequences, FiniteSets, TLC

\* ------------------------------------------------------------------ bounds

\* Number of keys the secure random source hands out in one behaviour.
MaxRand == 4

\* Highest last-signed height the consensus engine records in one behaviour.
MaxHeight == 1

\* Longest validator list of a genesis document.
MaxValidators == 2

\* ------------------------------------------------------------- identities

\* The mnemonic argument: "" (none), two phrases with a good checksum, one
\* phrase whose checksum fails.
Mnemonics == {"", "mnemonicA", "mnemonicB", "badchecksum"}

NoKey == [src |-> "none", secret |-> "", n |-> 0]

\* bip39.IsMnemonicValid
IsMnemonicValid(mnemonic) == mnemonic \in {"mnemonicA", "mnemonicB"}

\* algo.GenPrivKeyFromSecret([]byte(mnemonic)): deterministic in the secret.
GenPrivKeyFromSecret(secret) == [src |-> "secret", secret |-> secret, n |-> 0]

\* The n-th key drawn from the secure random source.
GenPrivKey(n) == [src |-> "rand", secret |-> "", n |-> n]

\* nodeKey.ID(): the address of the key's public key.
NoID == [kind |-> "none", of |-> NoKey]

ID(privKey) == [kind |-> "nodeid", of |-> privKey]

\* A nil public key, the tendermint public key of a private key and the
\* codec's conversion of it.
NilPubKey == [kind |-> "nil", of |-> NoKey]

TmPubKey(privKey) == [kind |-> "tmpub", of |-> privKey]

FromTmPubKeyInterface(tmPubKey) == [kind |-> "sdkpub", of |-> tmPubKey.of]

\* ------------------------------------------------------------- filesystem

Dirs == {"config", "data", "node"}

\* cfg.Config: the directory of each identity file.  The default layout
\* keeps node_key.json and priv_validator_key.json in config/ and
\* priv_validator_state.json in data/; an operator may move the node key.
Configs ==
    { [nodeKeyDir |-> d, pvKeyDir |-> "config", pvStateDir |-> "data"] :
        d \in {"config", "node"} }

DirOf(config, file) ==
    CASE file = "nodeKey" -> config.nodeKeyDir
      [] file = "pvKey"   -> config.pvKeyDir
      [] OTHER            -> config.pvStateDir

NoDisk == [nodeKey |-> <<>>, pvKey |-> <<>>, pvState |-> <<>>, dirs |-> {}]

WriteOp(file) == [op |-> "write", target |-> file]

EnsureOp(dir) == [op |-> "ensure", target |-> dir]

\* The injected I/O fault of a call: which step of the call the environment
\* makes fail, one per error return of the function.
Faults == {"none", "nodeKey", "ensureKeyDir", "ensureStateDir", "getPubKey", "convert"}

\* What a step hands to the next: the disk, the number of random keys drawn
\* so far, the log of disk operations of this call, the error, the value.
Step(disk, rand, log, err, key) ==
    [disk |-> disk, rand |-> rand, log |-> log, err |-> err, key |-> key]

\* (nodeKey *NodeKey).SaveAs(filePath): writes the key file; the write fails
\* on an I/O fault (IOFault) or when the directory is missing
\* (NoSuchDirectory).
NodeKeySaveAs(config, s, key, fault) ==
    IF fault \/ config.nodeKeyDir \notin s.disk.dirs
    THEN Step(s.disk, s.rand, s.log,
              IF fault THEN "IOFault" ELSE "NoSuchDirectory", key)
    ELSE Step([s.disk EXCEPT !.nodeKey = <<key>>], s.rand,
              Append(s.log, WriteOp("nodeKey")), "", key)

\* p2p.LoadOrGenNodeKey(filePath): load the key file when it exists, else
\* generate a random key and save it.
LoadOrGenNodeKey(config, s, fault) ==
    IF s.disk.nodeKey # <<>>
    THEN IF fault
         THEN Step(s.disk, s.rand, s.log, "IOFault", NoKey)
         ELSE Step(s.disk, s.rand, s.log, "", s.disk.nodeKey[1])
    ELSE NodeKeySaveAs(config, [s EXCEPT !.rand = s.rand + 1],
                       GenPrivKey(s.rand + 1), fault)

\* tmos.EnsureDir(dir, mode): create the directory when it is missing.
EnsureDir(s, dir, fault) ==
    IF fault
    THEN Step(s.disk, s.rand, s.log, "IOFault", s.key)
    ELSE Step([s.disk EXCEPT !.dirs = s.disk.dirs \cup {dir}], s.rand,
              Append(s.log, EnsureOp(dir)), "", s.key)

\* privval.NewFilePV(privKey, keyFile, stateFile): a signer with a fresh
\* signing state (height 0).
NewFilePV(privKey) == [key |-> privKey, height |-> 0]

\* (pv *FilePV).Save(): writes the key file and the signing-state file.
FilePVSave(s, pv) ==
    Step([s.disk EXCEPT !.pvKey = <<pv.key>>, !.pvState = <<pv.height>>],
         s.rand, s.log \o <<WriteOp("pvKey"), WriteOp("pvState")>>, "", pv.key)

\* privval.LoadOrGenFilePV(keyFile, stateFile): load both files when the key
\* file exists (the process exits when the state file cannot be read), else
\* generate a random signer and save it.
LoadOrGenFilePV(s) ==
    IF s.disk.pvKey # <<>>
    THEN IF s.disk.pvState = <<>>
         THEN Step(s.disk, s.rand, s.log, "ProcessExit", NoKey)
         ELSE Step(s.disk, s.rand, s.log, "", s.disk.pvKey[1])
    ELSE FilePVSave([s EXCEPT !.rand = s.rand + 1],
                    NewFilePV(GenPrivKey(s.rand + 1)))

\* ------------------------------------------- InitializeNodeValidatorFiles

\* The guard with its negation lost.
MnemonicRejectedNegationLost(mnemonic) ==
    mnemonic # "" /\ IsMnemonicValid(mnemonic)

\* The guard of the early return: a mnemonic was given and its checksum fails.
MnemonicRejected(mnemonic) == mnemonic # "" /\ ~IsMnemonicValid(mnemonic)

\* The node-key step as the upstream function has it: load or generate,
\* whatever the mnemonic.
NodeKeyStepAlwaysLoadOrGen(config, s, mnemonic, fault) ==
    LoadOrGenNodeKey(config, s, fault)

\* The node-key step: without a mnemonic load the key file or generate and
\* save a random key; with one, derive the key from the mnemonic's bytes and
\* save it.
NodeKeyStep(config, s, mnemonic, fault) ==
    IF mnemonic = ""
    THEN LoadOrGenNodeKey(config, s, fault)
    ELSE NodeKeySaveAs(config, s, GenPrivKeyFromSecret(mnemonic), fault)

\* The signer step: without a mnemonic load or generate the file signer;
\* with one, build a new signer from the mnemonic's key and save it.
FilePVStep(s, mnemonic) ==
    IF mnemonic = ""
    THEN LoadOrGenFilePV(s)
    ELSE FilePVSave(s, NewFilePV(GenPrivKeyFromSecret(mnemonic)))

\* What the function returns, with the disk it leaves behind.
Return(s, err, nodeID, valPubKey) ==
    [disk |-> s.disk, rand |-> s.rand, log |-> s.log, err |-> err,
     nodeID |-> nodeID, valPubKey |-> valPubKey]

Failed(s, err) == Return(s, err, NoID, NilPubKey)

InitializeNodeValidatorFilesFromMnemonic(config, disk, rand, mnemonic, fault) ==
    LET s0 == Step(disk, rand, <<>>, "", NoKey)
    IN
    IF MnemonicRejected(mnemonic) THEN Failed(s0, "InvalidMnemonic")
    ELSE
    LET s1 == NodeKeyStep(config, s0, mnemonic, fault = "nodeKey")
    IN
    IF s1.err # "" THEN Failed(s1, s1.err)
    ELSE
    LET nodeID == ID(s1.key)
        s2 == EnsureDir(s1, config.pvKeyDir, fault = "ensureKeyDir")
    IN
    IF s2.err # "" THEN Failed(s2, s2.err)
    ELSE
    LET s3 == EnsureDir(s2, config.pvStateDir, fault = "ensureStateDir")
    IN
    IF s3.err # "" THEN Failed(s3, s3.err)
    ELSE
    LET s4 == FilePVStep(s3, mnemonic)
    IN
    IF s4.err # "" THEN Failed(s4, s4.err)
    ELSE
    IF fault = "getPubKey" THEN Failed(s4, "PubKeyFailure")
    ELSE
    IF fault = "convert" THEN Failed(s4, "PubKeyConversionFailure")
    ELSE Return(s4, "", nodeID, FromTmPubKeyInterface(TmPubKey(s4.key)))

InitializeNodeValidatorFiles(config, disk, rand, fault) ==
    InitializeNodeValidatorFilesFromMnemonic(config, disk, rand, "", fault)

\* ---------------------------------------------------------------- genesis

ChainIDs == {"", "testnet-1"}

PubKeys == {"PK_A", "PK_B"}

Powers == {-1, 0, 10}

\* tmtypes.GenesisValidator
GenesisValidators == [PubKey : PubKeys, Power : Powers, Name : {"v1"}]

RECURSIVE SeqsUpTo(_, _)
SeqsUpTo(S, n) ==
    IF n = 0 THEN {<<>>}
    ELSE LET shorter == SeqsUpTo(S, n - 1)
         IN shorter \cup { Append(q, x) : q \in shorter, x \in S }

\* The zero time.Time is 0; a caller's genesis time is 1; the clock reads 2
\* or 3 when the export runs.
GenesisTimes == {0, 1}

Clock == {2, 3}

\* tmtypes.GenesisDoc
GenesisDoc(genTime, chainID, validators, appState) ==
    [GenesisTime |-> genTime, ChainID |-> chainID, Validators |-> validators,
     AppState |-> appState]

\* The first validator, in order, that validation rejects: 0 when none is.
FirstBadValidator(validators) ==
    LET bad == { i \in 1..Len(validators) :
                    \/ validators[i].Power <= 0
                    \/ \E j \in 1..(i - 1) :
                          validators[j].PubKey = validators[i].PubKey }
    IN IF bad = {} THEN 0
       ELSE CHOOSE i \in bad : \A k \in bad : i <= k

\* (genDoc *GenesisDoc).ValidateAndComplete(): chain id, then each validator
\* (power, then uniqueness), then the genesis time is set to now when unset.
ValidateAndComplete(genDoc, now) ==
    LET i == FirstBadValidator(genDoc.Validators)
    IN
    IF genDoc.ChainID = "" THEN [err |-> "EmptyChainID", doc |-> genDoc]
    ELSE IF i # 0 /\ genDoc.Validators[i].Power <= 0
    THEN [err |-> "InvalidValidatorPower", doc |-> genDoc]
    ELSE IF i # 0 THEN [err |-> "DuplicateValidator", doc |-> genDoc]
    ELSE [err |-> "",
          doc |-> IF genDoc.GenesisTime = 0
                  THEN [genDoc EXCEPT !.GenesisTime = now]
                  ELSE genDoc]

\* (genDoc *GenesisDoc).SaveAs(file): the document replaces the file, or the
\* write fails and the file is as it was.
SaveAs(genDoc, file, fault) ==
    IF fault THEN [err |-> "IOFault", file |-> file]
    ELSE [err |-> "", file |-> <<genDoc>>]

ExportGenesisFile(genDoc, file, now, fault) ==
    LET v == ValidateAndComplete(genDoc, now)
    IN IF v.err # "" THEN [err |-> v.err, file |-> file]
       ELSE SaveAs(v.doc, file, fault)

\* The export with the two statements swapped: saved, then validated.
ExportGenesisFileWithTimeSavesFirst(file, chainID, validators, appState, genTime, now, fault) ==
    LET genDoc == GenesisDoc(genTime, chainID, validators, appState)
        v == ValidateAndComplete(genDoc, now)
        w == SaveAs(v.doc, file, fault)
    IN IF v.err # "" THEN [err |-> v.err, file |-> w.file] ELSE w

ExportGenesisFileWithTime(file, chainID, validators, appState, genTime, now, fault) ==
    LET genDoc == GenesisDoc(genTime, chainID, validators, appState)
        v == ValidateAndComplete(genDoc, now)
    IN IF v.err # "" THEN [err |-> v.err, file |-> file]
       ELSE SaveAs(v.doc, file, fault)

\* ------------------------------------------------------------------ state

VARIABLES
    config,   \* the cfg.Config every call is given
    disk,     \* the identity files and the directories
    rand,     \* keys drawn from the random source so far
    prev,     \* the provisioning call before the last one
    last,     \* the last provisioning call: arguments, result, disk before/after
    genFile,  \* the genesis file
    export    \* the last genesis export: arguments, result, file before/after

idVars == <<config, disk, rand, prev, last>>

genVars == <<genFile, export>>

vars == <<config, disk, rand, prev, last, genFile, export>>

NoCall ==
    [op |-> "none", mnemonic |-> "", err |-> "",
     nodeID |-> NoID, valPubKey |-> NilPubKey, pre |-> NoDisk, post |-> NoDisk,
     log |-> <<>>, drawn |-> 0]

Call(op, mnemonic, r) ==
    [op |-> op, mnemonic |-> mnemonic, err |-> r.err,
     nodeID |-> r.nodeID, valPubKey |-> r.valPubKey, pre |-> disk,
     post |-> r.disk, log |-> r.log, drawn |-> r.rand - rand]

\* What is kept of the call before the last one: its name, whether it began
\* on an empty directory (no identity file and no subdirectory), and what it
\* returned.
NoPrev ==
    [op |-> "none", empty |-> FALSE, err |-> "", nodeID |-> NoID,
     valPubKey |-> NilPubKey]

Earlier(call) ==
    [op |-> call.op,
     empty |-> call.op # "none" /\ call.pre = NoDisk,
     err |-> call.err, nodeID |-> call.nodeID, valPubKey |-> call.valPubKey]

NoExport ==
    [op |-> "none", validation |-> "", err |-> "", pre |-> <<>>, post |-> <<>>]

\* No call made yet: any layout, any directories, no identity file, no
\* genesis file.
Init ==
    /\ genFile = <<>>
    /\ export = NoExport
    /\ config \in Configs
    /\ disk \in { [NoDisk EXCEPT !.dirs = d] : d \in SUBSET Dirs }
    /\ rand = 0
    /\ prev = NoPrev
    /\ last = NoCall

\* Before any provisioning, under the default layout.
GenesisInit ==
    /\ genFile = <<>>
    /\ export = NoExport
    /\ config = [nodeKeyDir |-> "config", pvKeyDir |-> "config",
                 pvStateDir |-> "data"]
    /\ disk = NoDisk
    /\ rand = 0
    /\ prev = NoPrev
    /\ last = NoCall

\* A call returns unless the process exited inside it.
Returned(op, mnemonic, r) ==
    /\ r.err # "ProcessExit"
    /\ disk' = r.disk
    /\ rand' = r.rand
    /\ prev' = Earlier(last)
    /\ last' = Call(op, mnemonic, r)
    /\ UNCHANGED <<config, genFile, export>>

CallInitializeNodeValidatorFiles ==
    /\ rand + 2 <= MaxRand
    /\ \E fault \in Faults :
         Returned("InitializeNodeValidatorFiles", "",
                  InitializeNodeValidatorFiles(config, disk, rand, fault))

CallInitializeNodeValidatorFilesFromMnemonic ==
    /\ rand + 2 <= MaxRand
    /\ \E mnemonic \in Mnemonics, fault \in Faults :
         Returned("InitializeNodeValidatorFilesFromMnemonic", mnemonic,
                  InitializeNodeValidatorFilesFromMnemonic(config, disk, rand,
                                                           mnemonic, fault))

\* The consensus engine signs a block and records the height in the
\* signing-state file.
SignBlock ==
    /\ disk.pvState # <<>>
    /\ disk.pvState[1] < MaxHeight
    /\ disk' = [disk EXCEPT !.pvState = <<disk.pvState[1] + 1>>]
    /\ UNCHANGED <<config, rand, prev, last, genFile, export>>

IdNext ==
    \/ CallInitializeNodeValidatorFiles
    \/ CallInitializeNodeValidatorFilesFromMnemonic
    \/ SignBlock

Exported(op, genDoc, now, r) ==
    /\ genFile' = r.file
    /\ export' = [op |-> op,
                  validation |-> ValidateAndComplete(genDoc, now).err,
                  err |-> r.err, pre |-> genFile, post |-> r.file]
    /\ UNCHANGED idVars

CallExportGenesisFile ==
    \E genTime \in GenesisTimes, chainID \in ChainIDs,
       validators \in SeqsUpTo(GenesisValidators, MaxValidators),
       now \in Clock, fault \in BOOLEAN :
        LET genDoc == GenesisDoc(genTime, chainID, validators, "{}")
        IN Exported("ExportGenesisFile", genDoc, now,
                    ExportGenesisFile(genDoc, genFile, now, fault))

CallExportGenesisFileWithTime ==
    \E genTime \in GenesisTimes, chainID \in ChainIDs,
       validators \in SeqsUpTo(GenesisValidators, MaxValidators),
       now \in Clock, fault \in BOOLEAN :
        Exported("ExportGenesisFileWithTime",
                 GenesisDoc(genTime, chainID, validators, "{}"), now,
                 ExportGenesisFileWithTime(genFile, chainID, validators, "{}",
                                           genTime, now, fault))

GenNext ==
    \/ CallExportGenesisFile
    \/ CallExportGenesisFileWithTime

\* Identity provisioning.
Spec == Init /\ [][IdNext]_vars

\* Genesis export.
GenesisSpec == GenesisInit /\ [][GenNext]_vars

\* ----------------------------------------------------- identity: claims

Provisioned == last.op # "none"

InjectedErrs == {"IOFault", "PubKeyFailure", "PubKeyConversionFailure"}

HasWrite(log) == \E i \in 1..Len(log) : log[i].op = "write"

\* C1: once the node key file and the validator key file exist, a later call
\* leaves their contents as they were and, when it succeeds, returns the
\* nodeID and the validator public key of those files, whatever mnemonic
\* (none, the same, another valid one) it is given.
C1_ExistingKeysNeverChange ==
    (Provisioned /\ last.pre.nodeKey # <<>> /\ last.pre.pvKey # <<>>) =>
        /\ last.post.nodeKey = last.pre.nodeKey
        /\ last.post.pvKey = last.pre.pvKey
        /\ (last.err = "" =>
              /\ last.nodeID = ID(last.pre.nodeKey[1])
              /\ last.valPubKey =
                     FromTmPubKeyInterface(TmPubKey(last.pre.pvKey[1])))

\* C2: a call that finds the validator key file leaves the signing-state
\* file unchanged; a recorded height above 0 is never reset to 0.
C2_SigningStateUntouched ==
    (Provisioned /\ last.pre.pvKey # <<>>) =>
        last.post.pvState = last.pre.pvState

\* C3: a non-empty mnemonic whose checksum fails makes the call return an
\* error with an empty nodeID and a nil public key, and the filesystem
\* (files and directories) is exactly as before the call.
C3_InvalidMnemonicLeavesDisk ==
    (Provisioned /\ last.mnemonic # "" /\ ~IsMnemonicValid(last.mnemonic)) =>
        /\ last.err = "InvalidMnemonic"
        /\ last.nodeID = NoID
        /\ last.valPubKey = NilPubKey
        /\ last.post = last.pre
        /\ last.log = <<>>
        /\ last.drawn = 0

\* C3's case: an invalid mnemonic given on a disk with no directory at all.
C3_Witness ==
    /\ Provisioned
    /\ last.mnemonic = "badchecksum"
    /\ last.err = "InvalidMnemonic"
    /\ last.pre.dirs = {}

\* C4: when the call returns an error, every identity file that existed
\* before the call still has its content.
C4_FailureKeepsExistingFiles ==
    (Provisioned /\ last.err # "") =>
        /\ last.pre.nodeKey # <<>> => last.post.nodeKey = last.pre.nodeKey
        /\ last.pre.pvKey # <<>> => last.post.pvKey = last.pre.pvKey
        /\ last.pre.pvState # <<>> => last.post.pvState = last.pre.pvState

\* C5: two calls of InitializeNodeValidatorFiles in a row, the first on an
\* empty directory, neither hit by an I/O fault of the environment: both
\* return the same nodeID and validator public key, and the second only
\* loads (it succeeds, draws no key and writes no file).
C5_SecondCallOnlyLoads ==
    ( /\ prev.op = "InitializeNodeValidatorFiles"
      /\ prev.empty
      /\ prev.err \notin InjectedErrs
      /\ last.op = "InitializeNodeValidatorFiles"
      /\ last.err \notin InjectedErrs ) =>
        /\ last.err = ""
        /\ last.nodeID = prev.nodeID
        /\ last.valPubKey = prev.valPubKey
        /\ last.drawn = 0
        /\ ~HasWrite(last.log)
        /\ last.post = last.pre

\* C8: every write of an identity file is preceded, in the same call, by a
\* step that ensures the directory of that file.
C8_WritesAfterEnsure ==
    \A i \in 1..Len(last.log) :
        last.log[i].op = "write" =>
            \E j \in 1..(i - 1) :
                last.log[j] = EnsureOp(DirOf(config, last.log[i].target))

\* C10: a successful call with a valid mnemonic leaves the node key and the
\* validator key equal, both the key derived from the mnemonic's bytes; a
\* successful call without a mnemonic on a disk with neither key leaves two
\* keys from two separate draws of the random source.
C10_MnemonicKeysCoincide ==
    /\ (Provisioned /\ last.err = "" /\ last.mnemonic # "") =>
          /\ last.post.nodeKey = <<GenPrivKeyFromSecret(last.mnemonic)>>
          /\ last.post.pvKey = last.post.nodeKey
          /\ last.nodeID = ID(GenPrivKeyFromSecret(last.mnemonic))
          /\ last.valPubKey.of = last.nodeID.of
    /\ (Provisioned /\ last.err = "" /\ last.mnemonic = ""
            /\ last.pre.nodeKey = <<>> /\ last.pre.pvKey = <<>>) =>
          /\ last.drawn = 2
          /\ last.post.nodeKey[1].src = "rand"
          /\ last.post.pvKey[1].src = "rand"
          /\ last.post.nodeKey # last.post.pvKey

C10_Witness ==
    /\ Provisioned
    /\ last.err = ""
    /\ last.mnemonic = "mnemonicB"
    /\ last.pre.nodeKey # <<>>
    /\ last.pre.nodeKey # last.pre.pvKey
    /\ last.post.nodeKey = last.post.pvKey

\* ------------------------------------------------------ genesis: claims

\* C9: when validation of the genesis document returns an error (recorded
\* in export.validation), the export returns that error and the file at the target path is neither created nor
\* modified.
C9_InvalidDocumentIsNotSaved ==
    (export.op # "none" /\ export.validation # "") =>
        /\ export.err = export.validation
        /\ export.post = export.pre
        /\ genFile = export.pre

\* C9's case: an invalid document exported over an earlier, valid export.
C9_Witness ==
    /\ export.op = "ExportGenesisFileWithTime"
    /\ export.validation = "InvalidValidatorPower"
    /\ export.err = "InvalidValidatorPower"
    /\ export.pre # <<>>
    /\ genFile = export.pre

====
